---- MODULE Spec2Model ----
(***************************************************************************)
(* A model of torch/distributed/state_dict.py: the canonical-FQN resolver, *)
(* the parameter index, the policy resolver, the model and optimizer       *)
(* state-dict transformers, the verifier, the two facade operations        *)
(* distributed_state_dict and distributed_load_state_dict, and the hooks   *)
(* patch_model_state_dict installs.                                        *)
(*                                                                         *)
(* Names are sequences of segments: the Python string "a.b.c" is           *)
(* <<"a", "b", "c">>, so name.split(".") and ".".join(...) are the         *)
(* passage between the two readings of the same value.  Tensor values and  *)
(* optimizer state payloads are opaque naturals.                           *)
(***************************************************************************)
EXTENDS Integers, Sequences, FiniteSets, TLC

(***************************************************************************)
(* Program constants.                                                      *)
(***************************************************************************)
FLAT_PARAM == "_flat_param"
FSDP_WRAPPED_MODULE == "_fsdp_wrapped_module"
DDP_MODULE == "module"
PG == "param_groups"

(***************************************************************************)
(* Bounds of the model.                                                    *)
(***************************************************************************)
\* how many training steps the caller takes between facade calls
MaxTrain == 1

(***************************************************************************)
(* Generic helpers: dictionaries are functions, with pop and item          *)
(* assignment as the code uses them.                                       *)
(***************************************************************************)
EmptyDict == [k \in {} |-> 0]

DictPop(d, k) == [x \in (DOMAIN d) \ {k} |-> d[x]]

DictPut(d, k, v) == [x \in (DOMAIN d) \cup {k} |-> IF x = k THEN v ELSE d[x]]

\* dict.update(other): entries of other win
DictUpdate(d, other) ==
    [x \in (DOMAIN d) \cup (DOMAIN other) |-> IF x \in DOMAIN other THEN other[x] ELSE d[x]]

Range(s) == {s[i] : i \in DOMAIN s}

RECURSIVE Flatten(_)
\* itertools.chain.from_iterable over a sequence of sequences
Flatten(ss) == IF ss = <<>> THEN <<>> ELSE Head(ss) \o Flatten(Tail(ss))

\* the position (1-based) of the first occurrence of x in s, 0 when absent
IndexOf(s, x) == IF \E i \in DOMAIN s : s[i] = x
                 THEN CHOOSE i \in DOMAIN s : s[i] = x /\ \A j \in 1..(i - 1) : s[j] # x
                 ELSE 0

\* len() of the dotted string a name stands for
RECURSIVE StrLen(_)
StrLen(path) == IF path = <<>> THEN 0
                ELSE IF Len(path) = 1 THEN Len(path[1])
                ELSE Len(path[1]) + 1 + StrLen(Tail(path))

\* str.split("."): the empty string splits into one empty segment
Split(path) == IF path = <<>> THEN <<"">> ELSE path

\* results of operations that may raise
Ok(v) == [err |-> "", val |-> v]
Raise(e) == [err |-> e, val |-> {}]

(***************************************************************************)
(* The module tree.  Every node is a record of one shape; a Replica        *)
(* (DistributedDataParallel) node registers its child under "module", a    *)
(* Shard (FullyShardedDataParallel) node under "_fsdp_wrapped_module".     *)
(* A flattened Shard node's wrapped module holds the flat parameter under  *)
(* "_flat_param"; the flat parameter records the original names (_fqns),   *)
(* and the original tensors remain plain attributes (views).               *)
(***************************************************************************)
Param(name, id, rg) ==
    [name |-> name, id |-> id, requires_grad |-> rg, fqns |-> <<>>, dtensor |-> FALSE]

TPParam(name, id, rg) ==
    [name |-> name, id |-> id, requires_grad |-> rg, fqns |-> <<>>, dtensor |-> TRUE]

\* originals: a sequence of [fqn |-> name, slot |-> storage slot]
FlatParameter(id, rg, originals) ==
    [name |-> FLAT_PARAM, id |-> id, requires_grad |-> rg, fqns |-> originals,
     dtensor |-> FALSE]

Buffer(name, id) == [name |-> name, id |-> id]

Child(name, node) == [name |-> name, node |-> node]

Plain(params, buffers, views, children) ==
    [kind |-> "Plain", params |-> params, buffers |-> buffers, views |-> views,
     children |-> children, is_root |-> FALSE]

Replica(node) ==
    [kind |-> "Replica", params |-> <<>>, buffers |-> <<>>, views |-> <<>>,
     children |-> <<Child(DDP_MODULE, node)>>, is_root |-> FALSE]

Shard(node, root) ==
    [kind |-> "Shard", params |-> <<>>, buffers |-> <<>>, views |-> <<>>,
     children |-> <<Child(FSDP_WRAPPED_MODULE, node)>>, is_root |-> root]

\* what getattr(obj, name) finds on a tensor: nothing the walk can descend into
Tensor ==
    [kind |-> "Tensor", params |-> <<>>, buffers |-> <<>>, views |-> <<>>,
     children |-> <<>>, is_root |-> FALSE]

Leaf(params) == Plain(params, <<>>, <<>>, <<>>)

Linear == Leaf(<<Param("weight", 1, TRUE), Param("bias", 2, FALSE)>>)

BatchNorm == Plain(<<>>, <<Buffer("running_mean", 4)>>, <<>>, <<>>)

\* an unwrapped model: parameters (one frozen) and a buffer
PlainModel ==
    Plain(<<Param("p", 3, TRUE)>>, <<>>, <<>>,
          <<Child("l", Linear), Child("bn", BatchNorm)>>)

\* Replica only, parameters only
ReplicaModel == Replica(Plain(<<>>, <<>>, <<>>, <<Child("l", Linear)>>))

\* Replica only, parameters and a buffer
ReplicaBufferModel == Replica(PlainModel)

\* a Replica below the root, beside a plain child that happens to be named "module"
InnerReplicaModel ==
    Plain(<<>>, <<>>, <<>>,
          <<Child("enc", Replica(Leaf(<<Param("w", 1, TRUE)>>))),
            Child(DDP_MODULE, Leaf(<<Param("w", 2, TRUE)>>))>>)

\* Shard only, original parameters kept (use_orig_params)
ShardModel == Shard(Plain(<<>>, <<>>, <<>>, <<Child("l", Linear)>>), TRUE)

\* nested Shard wrappers, original parameters kept
NestedShardModel ==
    Shard(Plain(<<Param("p", 1, TRUE)>>, <<>>, <<>>,
                <<Child("u", Shard(Leaf(<<Param("w", 2, TRUE)>>), FALSE))>>), TRUE)

FlatWrapped ==
    Plain(<<FlatParameter(1, TRUE, <<[fqn |-> <<"l", "weight">>, slot |-> 11],
                                     [fqn |-> <<"l", "bias">>, slot |-> 12]>>)>>,
          <<>>, <<>>,
          <<Child("l", Plain(<<>>, <<>>, <<"weight", "bias">>, <<>>))>>)

\* Shard only, flattened
FlatShardModel == Shard(FlatWrapped, TRUE)

\* Replica + Shard, flattened
ReplicaFlatShardModel == Replica(Shard(FlatWrapped, TRUE))

\* a Shard wrapper that is not the root of its shard group
NoRootShardModel == Shard(Leaf(<<Param("w", 1, TRUE)>>), FALSE)

\* a module taken from inside a flattened Shard wrapper: the flat parameter
\* is registered on it and no wrapper is above it
LeakedFlatModel ==
    Plain(<<Param("p", 2, TRUE)>>, <<>>, <<>>, <<Child("sub", FlatWrapped)>>)

\* Shard + TensorParallel leaf
ShardTPModel ==
    Shard(Plain(<<>>, <<>>, <<>>,
                <<Child("l", Leaf(<<TPParam("weight", 1, TRUE)>>))>>), TRUE)

\* tied weights: the frozen weight of the embedding is also registered as
\* the weight of the output layer
TiedModel ==
    Plain(<<>>, <<>>, <<>>,
          <<Child("emb", Leaf(<<Param("weight", 1, FALSE)>>)),
            Child("head", Leaf(<<Param("weight", 1, FALSE), Param("bias", 2, TRUE)>>))>>)

\* a flattened Shard wrapper around one child of an unwrapped root
InnerFlatShardModel ==
    Plain(<<Param("p", 2, TRUE)>>, <<>>, <<>>,
          <<Child("enc", Shard(FlatWrapped, TRUE))>>)

Trees == <<PlainModel, ReplicaModel, ReplicaBufferModel, InnerReplicaModel,
           ShardModel, NestedShardModel, FlatShardModel, ReplicaFlatShardModel,
           NoRootShardModel, LeakedFlatModel, ShardTPModel, TiedModel,
           InnerFlatShardModel>>

(***************************************************************************)
(* The collaborators' traversals.                                          *)
(***************************************************************************)
RECURSIVE NamedParamsOfChildren(_, _)
RECURSIVE NamedParameters(_, _)
\* the module's own parameters, then each child's, depth first; entries are
\* [name, param]
NamedParameters(node, prefix) ==
    [i \in DOMAIN node.params |->
        [name |-> prefix \o <<node.params[i].name>>, param |-> node.params[i]]]
    \o NamedParamsOfChildren(node.children, prefix)

NamedParamsOfChildren(children, prefix) ==
    IF children = <<>> THEN <<>>
    ELSE NamedParameters(Head(children).node, prefix \o <<Head(children).name>>)
         \o NamedParamsOfChildren(Tail(children), prefix)

\* nn.Module.named_parameters(): a parameter registered under two names is
\* yielded once, under the first
named_parameters(model) ==
    LET all == NamedParameters(model, <<>>)
        first(k) == \A j \in 1..(k - 1) : all[j].param.id # all[k].param.id
        kept == SelectSeq([k \in DOMAIN all |-> k], first)
    IN [k \in DOMAIN kept |-> all[kept[k]]]

RECURSIVE FsdpModulesOfChildren(_)
RECURSIVE fsdp_modules(_)
\* FSDP.fsdp_modules(model): every Shard wrapper in the tree
fsdp_modules(node) ==
    (IF node.kind = "Shard" THEN <<node>> ELSE <<>>) \o FsdpModulesOfChildren(node.children)

FsdpModulesOfChildren(children) ==
    IF children = <<>> THEN <<>>
    ELSE fsdp_modules(Head(children).node) \o FsdpModulesOfChildren(Tail(children))

HasAttr(node, name) ==
    \/ \E i \in DOMAIN node.children : node.children[i].name = name
    \/ \E i \in DOMAIN node.params : node.params[i].name = name
    \/ \E i \in DOMAIN node.buffers : node.buffers[i].name = name
    \/ \E i \in DOMAIN node.views : node.views[i] = name

GetAttr(node, name) ==
    IF \E i \in DOMAIN node.children : node.children[i].name = name
    THEN node.children[CHOOSE i \in DOMAIN node.children : node.children[i].name = name].node
    ELSE Tensor

\* the wrapped child of a Replica or Shard node
Wrapped(node) == node.children[1].node

\* FullyShardedDataParallel._flat_param: the flat parameter registered on
\* the wrapped module
HasFlatParam(node) ==
    \E i \in DOMAIN Wrapped(node).params : Wrapped(node).params[i].name = FLAT_PARAM

FlatParamOf(node) ==
    LET ps == Wrapped(node).params
    IN ps[CHOOSE i \in DOMAIN ps : ps[i].name = FLAT_PARAM]

(***************************************************************************)
(* _get_fqns                                                               *)
(***************************************************************************)
RECURSIVE FqnsWalk(_, _, _, _, _)
\* the loop of _get_fqns from position i (1-based) at node curr_obj with
\* fqn_obj_names accumulated
FqnsWalk(curr_obj, obj_names, i, fqn_obj_names, skip_ddp_prefix) ==
    IF i > Len(obj_names) THEN Ok({fqn_obj_names})
    ELSE
      LET curr_obj_name == obj_names[i] IN
      IF curr_obj.kind = "Replica" THEN
          IF curr_obj_name # DDP_MODULE THEN Raise("AssertionError")
          ELSE FqnsWalk(Wrapped(curr_obj), obj_names, i + 1,
                        IF skip_ddp_prefix THEN fqn_obj_names
                        ELSE Append(fqn_obj_names, curr_obj_name),
                        skip_ddp_prefix)
      ELSE IF curr_obj.kind = "Shard" THEN
          IF i + 1 > Len(obj_names) THEN Raise("IndexError")
          ELSE IF obj_names[i + 1] = FLAT_PARAM THEN
              IF ~HasFlatParam(curr_obj) THEN Raise("AttributeError")
              ELSE Ok({fqn_obj_names \o FlatParamOf(curr_obj).fqns[k].fqn :
                         k \in DOMAIN FlatParamOf(curr_obj).fqns})
          ELSE IF curr_obj_name # FSDP_WRAPPED_MODULE THEN
              IF ~HasAttr(Wrapped(curr_obj), curr_obj_name) THEN Raise("AttributeError")
              ELSE FqnsWalk(GetAttr(Wrapped(curr_obj), curr_obj_name), obj_names, i + 1,
                            Append(fqn_obj_names, curr_obj_name), skip_ddp_prefix)
          ELSE FqnsWalk(Wrapped(curr_obj), obj_names, i + 1, fqn_obj_names,
                        skip_ddp_prefix)
      ELSE
          IF ~HasAttr(curr_obj, curr_obj_name) THEN Raise("AttributeError")
          ELSE FqnsWalk(GetAttr(curr_obj, curr_obj_name), obj_names, i + 1,
                        Append(fqn_obj_names, curr_obj_name), skip_ddp_prefix)

\* a faulty _get_fqns: the skip_ddp_prefix argument is ignored and the
\* Replica segment is always kept
GetFqnsKeepingReplica(model, name, skip_ddp_prefix) ==
    IF Len(name) <= 1 THEN Ok({name})
    ELSE FqnsWalk(model, Split(name), 1, <<>>, FALSE)

\* a faulty _get_fqns: only the last segment of the name is returned
GetFqnsLeafOnly(model, name, skip_ddp_prefix) == Ok({<<name[Len(name)]>>})

_get_fqns(model, name, skip_ddp_prefix) ==
    IF Len(name) <= 1 THEN Ok({name})
    ELSE FqnsWalk(model, Split(name), 1, <<>>, skip_ddp_prefix)

(***************************************************************************)
(* _verify_options: the parameter index and the policy.                    *)
(***************************************************************************)
DefaultOptions ==
    [use_dtensor |-> TRUE, fsdp_state_dict_type |-> "SHARDED_STATE_DICT",
     save_to_cpu |-> TRUE, save_frozen_params |-> TRUE]

EmptyMapping == [p2f |-> EmptyDict, f2p |-> EmptyDict]

\* a faulty PutAll: only one of the names is recorded
PutOne(d, fqns, param) ==
    IF fqns = {} THEN d ELSE DictPut(d, CHOOSE f \in fqns : TRUE, param)

RECURSIVE PutAll(_, _, _)
\* for fqn in fqns: fqn_param_mapping[fqn] = param
PutAll(d, fqns, param) ==
    IF fqns = {} THEN d
    ELSE LET fqn == CHOOSE f \in fqns : TRUE
         IN PutAll(DictPut(d, fqn, param), fqns \ {fqn}, param)

RECURSIVE BuildMapping(_, _, _, _, _)
\* the loop over model.named_parameters() in _verify_options, from entry i:
\* the mapping holds param -> fqns (p2f, keyed by the parameter's identity)
\* and fqn -> param (f2p)
BuildMapping(model, np, i, mapping, use_dtensor) ==
    IF i > Len(np) THEN Ok(mapping)
    ELSE LET fqns == _get_fqns(model, np[i].name, TRUE) IN
         IF fqns.err # "" THEN Raise(fqns.err)
         ELSE LET m == [p2f |-> DictPut(mapping.p2f, np[i].param.id, fqns.val),
                        f2p |-> PutAll(mapping.f2p, fqns.val, np[i].param.id)]
              IN IF np[i].param.dtensor /\ ~use_dtensor
                 THEN Raise("TP is used by but use_dtensor is set to False")
                 ELSE BuildMapping(model, np, i + 1, m, use_dtensor)

fqn_param_mapping(model, use_dtensor) ==
    BuildMapping(model, named_parameters(model), 1, EmptyMapping, use_dtensor)

\* a faulty PolicyError: optim_only without optimizers is let through
PolicyErrorLax(optims, model_only, optim_only) ==
    IF model_only /\ optim_only
    THEN "Both model_only and optim_only are set, which one do you need?"
    ELSE IF model_only /\ optims # <<>>
    THEN "If model_only is True optims must be an empty iterable object."
    ELSE ""

\* the three policy checks, in the order the code makes them
PolicyError(optims, model_only, optim_only) ==
    IF model_only /\ optim_only
    THEN "Both model_only and optim_only are set, which one do you need?"
    ELSE IF model_only /\ optims # <<>>
    THEN "If model_only is True optims must be an empty iterable object."
    ELSE IF optim_only /\ optims = <<>>
    THEN "Optimizers are not passed in but optim_only is set to True."
    ELSE ""

handle_model(model_only, optim_only) == model_only \/ ~optim_only

handle_optim(optims, model_only, optim_only) ==
    optim_only \/ (~model_only /\ optims # <<>>)

_verify_options(model, optims, model_only, optim_only, options) ==
    LET mapping == fqn_param_mapping(model, options.use_dtensor)
        modules == fsdp_modules(model)
    IN IF mapping.err # "" THEN Raise(mapping.err)
       ELSE IF modules # <<>>
               /\ options.fsdp_state_dict_type \notin {"FULL_STATE_DICT", "SHARDED_STATE_DICT"}
       THEN Raise("distributed_state_dict currently support only FSDP FULL_STATE_DICT and SHARDED_STATE_DICT")
       ELSE IF PolicyError(optims, model_only, optim_only) # ""
       THEN Raise(PolicyError(optims, model_only, optim_only))
       ELSE Ok([save_frozen_params |-> options.save_frozen_params,
                fqn_param_mapping |-> mapping.val,
                fsdp_modules |-> modules,
                handle_model |-> handle_model(model_only, optim_only),
                handle_optim |-> handle_optim(optims, model_only, optim_only)])

(***************************************************************************)
(* _verify_state_dict                                                      *)
(***************************************************************************)
\* the names that contain the flattening marker as a substring; a name is a
\* sequence of segments and the marker holds no ".", so the marker is in the
\* name exactly when it is in one of its segments
MarkerSegments == {FLAT_PARAM, "my_flat_param_0"}

\* a faulty ContainsFlatParam: the key is compared with the marker instead of
\* searched for it
KeyIsFlatParam(key) == key = <<FLAT_PARAM>>

ContainsFlatParam(key) == \E i \in DOMAIN key : key[i] \in MarkerSegments

\* a faulty has_fsdp_root: any Shard wrapper counts as the root
HasFsdpModule(modules) == modules # <<>>

has_fsdp_root(modules) == \E i \in DOMAIN modules : modules[i].is_root

\* optim_state_dict is falsy, or its "state" is
OptimStateEmpty(optim_state_dict) ==
    \/ optim_state_dict = EmptyDict
    \/ optim_state_dict.state = EmptyDict

\* "" when the state dicts pass, else the error raised
_verify_state_dict(model_state_dict, optim_state_dict, info) ==
    IF info.fsdp_modules # <<>> /\ ~has_fsdp_root(info.fsdp_modules)
    THEN "The model has FSDP modules but no FSDP root module exists."
    ELSE IF info.handle_model /\ model_state_dict = EmptyDict
    THEN "model state_dict is empty"
    ELSE IF info.handle_optim /\ OptimStateEmpty(optim_state_dict)
    THEN "optim state_dict is empty"
    ELSE IF \E key \in DOMAIN model_state_dict : ContainsFlatParam(key)
    THEN "contains _flat_param"
    ELSE ""

(***************************************************************************)
(* Calls through callables.  _patched_state_dict is the set of the hooks   *)
(* that patch_model_state_dict installed; a call binds its keyword         *)
(* arguments to the parameters of the function called.                     *)
(***************************************************************************)
\* the error of calling, with `positional` positional arguments, what
\* _state_dict_fn(obj, api) returns: an installed hook is replaced by
\* functools.partial(getattr(obj.__class__, api), self=obj), so that a
\* positional argument lands on self a second time
_state_dict_fn(is_patched, positional) ==
    IF is_patched /\ positional > 0
    THEN "TypeError: got multiple values for argument 'self'"
    ELSE ""

\* the parameters of distributed_state_dict
StateDictParameters == {"model", "optims", "model_only", "optim_only", "options"}

\* the parameters of distributed_load_state_dict
LoadStateDictParameters ==
    {"model", "optims", "model_state_dict", "optim_state_dict", "model_only",
     "optim_only", "options"}

\* the keywords the installed model.state_dict passes
StateDictCallKeywords == {"model", "optims", "model_only", "options"}

\* the keywords the installed model.load_state_dict passes
LoadStateDictCallKeywords == {"model", "optims", "model_only", "options", "state_dict"}

\* the error of a call that passes these keywords to a function of these
\* parameters, "" when every keyword is a parameter
BindError(keywords, parameters) ==
    IF keywords \subseteq parameters THEN ""
    ELSE "TypeError: got an unexpected keyword argument"

(***************************************************************************)
(* The tree's native save and load primitives (nn.Module.state_dict and    *)
(* load_state_dict inside the wrapper's context manager).  Entries are     *)
(* [key, slot]: the native key and the storage slot whose value it saves.  *)
(* A Replica node keeps its "module" segment in the keys; a Shard node's   *)
(* marker segment is not part of them, and the flat parameter of a Shard   *)
(* node is saved under the original names it recorded.                     *)
(***************************************************************************)
RECURSIVE NativeEntriesOfChildren(_, _, _)
RECURSIVE NativeEntries(_, _, _)
NativeEntries(node, prefix, wrapped) ==
    LET own(param) ==
            IF param.fqns # <<>> /\ wrapped
            THEN [k \in DOMAIN param.fqns |->
                     [key |-> prefix \o param.fqns[k].fqn, slot |-> param.fqns[k].slot]]
            ELSE <<[key |-> prefix \o <<param.name>>, slot |-> param.id]>>
    IN Flatten([i \in DOMAIN node.params |-> own(node.params[i])])
       \o [i \in DOMAIN node.buffers |->
              [key |-> prefix \o <<node.buffers[i].name>>, slot |-> node.buffers[i].id]]
       \o NativeEntriesOfChildren(node.children,
                                  prefix, node.kind = "Shard")

NativeEntriesOfChildren(children, prefix, wrapped) ==
    IF children = <<>> THEN <<>>
    ELSE NativeEntries(Head(children).node,
                       IF wrapped THEN prefix ELSE prefix \o <<Head(children).name>>,
                       wrapped)
         \o NativeEntriesOfChildren(Tail(children), prefix, wrapped)

NativeKeys(model) ==
    LET es == NativeEntries(model, <<>>, FALSE) IN [i \in DOMAIN es |-> es[i].key]

\* every storage slot of the tree
Slots(model) ==
    LET es == NativeEntries(model, <<>>, FALSE) IN {es[i].slot : i \in DOMAIN es}

\* model.state_dict(): native key -> value
NativeStateDict(model, values) ==
    LET es == NativeEntries(model, <<>>, FALSE)
    IN [k \in {es[i].key : i \in DOMAIN es} |->
           values[es[CHOOSE i \in DOMAIN es : es[i].key = k].slot]]

\* model.load_state_dict(state_dict), strict: the values of the keys the tree
\* knows are copied in; missing or unexpected keys then raise
NativeLoadValues(model, state_dict, values) ==
    LET es == NativeEntries(model, <<>>, FALSE)
    IN [s \in DOMAIN values |->
           IF \E i \in DOMAIN es : es[i].slot = s /\ es[i].key \in DOMAIN state_dict
           THEN state_dict[es[CHOOSE i \in DOMAIN es :
                                 es[i].slot = s /\ es[i].key \in DOMAIN state_dict].key]
           ELSE values[s]]

NativeLoadError(model, state_dict) ==
    IF DOMAIN state_dict = Range(NativeKeys(model)) THEN ""
    ELSE "Error(s) in loading state_dict: missing or unexpected keys"

(***************************************************************************)
(* _get_model_state_dict                                                   *)
(***************************************************************************)
RECURSIVE VerifyLoop(_, _, _, _)
\* the loop of verify(key, fqn) at key_split[key_idx] (1-based) with fqn_idx
\* segments of fqn_split matched
VerifyLoop(key_split, fqn_split, key_idx, fqn_idx) ==
    IF key_idx > Len(key_split) THEN TRUE
    ELSE IF key_split[key_idx] = fqn_split[fqn_idx + 1]
    THEN IF fqn_idx + 1 = Len(fqn_split) THEN key_idx = Len(key_split)
         ELSE VerifyLoop(key_split, fqn_split, key_idx + 1, fqn_idx + 1)
    ELSE IF key_split[key_idx] = "module"
    THEN VerifyLoop(key_split, fqn_split, key_idx + 1, fqn_idx)
    ELSE FALSE

verify(key, fqn) ==
    IF StrLen(fqn) >= StrLen(key) THEN FALSE
    ELSE VerifyLoop(Split(key), Split(fqn), 1, 0)

RECURSIVE RekeyToCanonical(_, _, _, _)
\* the loop over list(state_dict.keys()), from key i
RekeyToCanonical(model, keys, i, state_dict) ==
    IF i > Len(keys) THEN Ok(state_dict)
    ELSE LET key == keys[i]
             fqns == _get_fqns(model, key, TRUE)
         IN IF fqns.err # "" THEN Raise(fqns.err)
            ELSE IF Cardinality(fqns.val) # 1 THEN Raise("AssertionError")
            ELSE LET fqn == CHOOSE f \in fqns.val : TRUE IN
                 IF fqn = key THEN RekeyToCanonical(model, keys, i + 1, state_dict)
                 ELSE IF ~verify(key, fqn) THEN Raise("An unexpected key exists")
                 ELSE RekeyToCanonical(model, keys, i + 1,
                                       DictPut(DictPop(state_dict, key), fqn, state_dict[key]))

RECURSIVE PopAll(_, _)
\* for fqn in fqns: state_dict.pop(fqn)
PopAll(state_dict, fqns) ==
    IF fqns = {} THEN Ok(state_dict)
    ELSE LET fqn == CHOOSE f \in fqns : TRUE IN
         IF fqn \notin DOMAIN state_dict THEN Raise("KeyError")
         ELSE PopAll(DictPop(state_dict, fqn), fqns \ {fqn})

RECURSIVE DropFrozen(_, _, _, _)
\* the loop over model.named_parameters() that drops the frozen parameters
DropFrozen(model, np, i, state_dict) ==
    IF i > Len(np) THEN Ok(state_dict)
    ELSE IF np[i].param.requires_grad THEN DropFrozen(model, np, i + 1, state_dict)
    ELSE LET fqns == _get_fqns(model, np[i].name, TRUE) IN
         IF fqns.err # "" THEN Raise(fqns.err)
         ELSE LET popped == PopAll(state_dict, fqns.val) IN
              IF popped.err # "" THEN popped
              ELSE DropFrozen(model, np, i + 1, popped.val)

_get_model_state_dict(model, values, info) ==
    LET rekeyed == RekeyToCanonical(model, NativeKeys(model), 1,
                                    NativeStateDict(model, values))
    IN IF rekeyed.err # "" THEN rekeyed
       ELSE IF ~info.save_frozen_params
       THEN DropFrozen(model, named_parameters(model), 1, rekeyed.val)
       ELSE rekeyed

(***************************************************************************)
(* _load_model_state_dict                                                  *)
(***************************************************************************)
\* the pairings zip(fqns, fqns_with_ddp_prefix) can produce: both are sets
\* of strings, each iterated in its own hash order; two equal sets built the
\* same way iterate alike
Zips(fqns, fqns_with_ddp_prefix) ==
    IF fqns = fqns_with_ddp_prefix THEN {[f \in fqns |-> f]}
    ELSE {z \in [fqns -> fqns_with_ddp_prefix] :
             \A a, b \in fqns : a # b => z[a] # z[b]}

\* the pairings of a whole pass over the named parameters: one function on
\* all canonical names that is, for each parameter, one of its Zips
ZipChoices(model) ==
    LET np == named_parameters(model)
        ok == \A i \in DOMAIN np : /\ _get_fqns(model, np[i].name, TRUE).err = ""
                                   /\ _get_fqns(model, np[i].name, FALSE).err = ""
        from == UNION {_get_fqns(model, np[i].name, TRUE).val : i \in DOMAIN np}
        to == UNION {_get_fqns(model, np[i].name, FALSE).val : i \in DOMAIN np}
    IN IF ~ok THEN {EmptyDict}
       ELSE {z \in [from -> to] :
               \A i \in DOMAIN np :
                  LET fqns == _get_fqns(model, np[i].name, TRUE).val
                  IN [f \in fqns |-> z[f]]
                        \in Zips(fqns, _get_fqns(model, np[i].name, FALSE).val)}

RECURSIVE RekeyPairs(_, _, _)
\* for fqn, fqn_with_ddp_prefix in zip(...): rekey when the two differ
RekeyPairs(state_dict, todo, z) ==
    IF todo = {} THEN Ok(state_dict)
    ELSE LET fqn == CHOOSE f \in todo : TRUE IN
         IF fqn = z[fqn] THEN RekeyPairs(state_dict, todo \ {fqn}, z)
         ELSE IF fqn \notin DOMAIN state_dict THEN Raise("KeyError")
         ELSE RekeyPairs(DictPut(DictPop(state_dict, fqn), z[fqn], state_dict[fqn]),
                         todo \ {fqn}, z)

RECURSIVE RekeyToNative(_, _, _, _, _)
\* the loop over model.named_parameters(), from entry i, under pairing z
RekeyToNative(model, np, i, state_dict, z) ==
    IF i > Len(np) THEN Ok(state_dict)
    ELSE LET fqns == _get_fqns(model, np[i].name, TRUE)
             fqns_with_ddp_prefix == _get_fqns(model, np[i].name, FALSE)
         IN IF fqns.err # "" THEN Raise(fqns.err)
            ELSE IF fqns_with_ddp_prefix.err # "" THEN Raise(fqns_with_ddp_prefix.err)
            ELSE LET done == RekeyPairs(state_dict, fqns.val, z)
                 IN IF done.err # "" THEN done
                    ELSE RekeyToNative(model, np, i + 1, done.val, z)

(***************************************************************************)
(* The optimizer (torch.optim.Optimizer): param_groups is a sequence of    *)
(* [lr, params], params a sequence of parameter identities; state maps a   *)
(* parameter identity to its payload.  A gradient is "none", "real" or     *)
(* "zero" (the synthetic zero gradient).                                   *)
(***************************************************************************)
\* a positional parameter id as a dictionary key
Pid(n) == <<"#" \o ToString(n)>>

GroupParams(optim) == Flatten([g \in DOMAIN optim.param_groups |-> optim.param_groups[g].params])

ParamIds(model) ==
    LET np == named_parameters(model) IN {np[i].param.id : i \in DOMAIN np}

ParamById(model, id) ==
    LET np == named_parameters(model)
    IN np[CHOOSE i \in DOMAIN np : np[i].param.id = id].param

\* the payload an optimizer step creates from a zero gradient
FreshState == 1

RECURSIVE FakeGrads(_, _, _, _)
\* the loop of _init_optim_state over the groups' parameters, from position i
FakeGrads(model, params, i, grads) ==
    IF i > Len(params) THEN [err |-> "", grads |-> grads]
    ELSE IF grads[params[i]] # "none"
    THEN [err |-> "the gradients are not None", grads |-> grads]
    ELSE FakeGrads(model, params, i + 1,
                   IF ParamById(model, params[i]).requires_grad
                   THEN [grads EXCEPT ![params[i]] = "zero"]
                   ELSE grads)

\* optim.step(closure=None): a parameter with a gradient gets its state
OptimStep(optim, grads) ==
    LET ps == GroupParams(optim)
        stepped == {ps[i] : i \in {j \in DOMAIN ps : grads[ps[j]] # "none"}}
    IN [optim EXCEPT !.state =
           [q \in (DOMAIN optim.state) \cup stepped |->
               IF q \notin stepped THEN optim.state[q]
               ELSE IF q \in DOMAIN optim.state THEN optim.state[q] + 1
               ELSE FreshState]]

\* optim.zero_grad(set_to_none=True)
ZeroGrad(optim, grads) ==
    [q \in DOMAIN grads |-> IF q \in Range(GroupParams(optim)) THEN "none" ELSE grads[q]]

\* [err, optim, grads, stepped]
_init_optim_state(model, optim, grads) ==
    IF optim.state # EmptyDict
    THEN [err |-> "", optim |-> optim, grads |-> grads, stepped |-> FALSE]
    ELSE LET faked == FakeGrads(model, GroupParams(optim), 1, grads) IN
         IF faked.err # ""
         THEN [err |-> faked.err, optim |-> optim, grads |-> faked.grads, stepped |-> FALSE]
         ELSE [err |-> "", optim |-> OptimStep(optim, faked.grads),
               grads |-> ZeroGrad(optim, faked.grads), stepped |-> TRUE]

\* optim.state_dict(): state keyed by position, groups listing positions
NativeOptimStateDict(optim) ==
    LET ps == GroupParams(optim)
        pos(q) == IndexOf(ps, q) - 1
        pack(groups) == [g \in DOMAIN groups |->
                           [lr |-> groups[g].lr,
                            params |-> [k \in DOMAIN groups[g].params |->
                                           Pid(pos(groups[g].params[k]))]]]
    IN [state |-> [k \in {Pid(pos(q)) : q \in (DOMAIN optim.state) \cap Range(ps)} |->
                      optim.state[CHOOSE q \in DOMAIN optim.state : Pid(pos(q)) = k]],
        param_groups |-> pack(optim.param_groups)]

\* optim.load_state_dict(state_dict): the saved ids are matched to the
\* optimizer's parameters by position in the groups
NativeOptimLoadError(optim, state_dict) ==
    IF Len(optim.param_groups) # Len(state_dict.param_groups)
    THEN "loaded state dict has a different number of parameter groups"
    ELSE IF \E g \in DOMAIN optim.param_groups :
               Len(optim.param_groups[g].params) # Len(state_dict.param_groups[g].params)
    THEN "loaded state dict contains a parameter group that doesn't match the size of optimizer's group"
    ELSE ""

NativeOptimLoad(optim, state_dict) ==
    LET loaded == Flatten([g \in DOMAIN state_dict.param_groups |->
                             state_dict.param_groups[g].params])
        ps == GroupParams(optim)
        hit == {i \in DOMAIN ps : loaded[i] \in DOMAIN state_dict.state}
    IN [state |-> [q \in {ps[i] : i \in hit} |->
                      state_dict.state[loaded[CHOOSE i \in hit : ps[i] = q]]],
        param_groups |-> [g \in DOMAIN optim.param_groups |->
                            [lr |-> state_dict.param_groups[g].lr,
                             params |-> optim.param_groups[g].params]]]

(***************************************************************************)
(* The Shard wrapper's optimizer-state primitives (FSDP.optim_state_dict   *)
(* and FSDP.optim_state_dict_to_load): from positions to the canonical     *)
(* names of the parameter index, a flat parameter's entry standing for     *)
(* each of its names, and back.                                            *)
(***************************************************************************)
\* the canonical names of parameter q, in the order the parameter records them
OrderedFqns(model, mapping, q) ==
    LET rec == ParamById(model, q)
        names == mapping.p2f[q]
    IN IF rec.fqns = <<>> \/ Cardinality(names) = 1
       THEN <<CHOOSE f \in names : TRUE>>
       ELSE LET first == rec.fqns[1].fqn
                full == CHOOSE f \in names :
                           /\ Len(f) >= Len(first)
                           /\ SubSeq(f, Len(f) - Len(first) + 1, Len(f)) = first
                prefix == SubSeq(full, 1, Len(full) - Len(first))
            IN [k \in DOMAIN rec.fqns |-> prefix \o rec.fqns[k].fqn]

FsdpOptimStateDict(model, optim, osd, mapping) ==
    LET ps == GroupParams(optim)
        keyed == {i \in DOMAIN ps : Pid(i - 1) \in DOMAIN osd.state}
    IN [state |-> [f \in UNION {mapping.p2f[ps[i]] : i \in keyed} |->
                      osd.state[Pid((CHOOSE i \in keyed : f \in mapping.p2f[ps[i]]) - 1)]],
        param_groups |-> [g \in DOMAIN optim.param_groups |->
                            [lr |-> osd.param_groups[g].lr,
                             params |-> Flatten([k \in DOMAIN optim.param_groups[g].params |->
                                           OrderedFqns(model, mapping,
                                                       optim.param_groups[g].params[k])])]]]

FsdpOptimStateDictToLoad(model, optim, osd, mapping) ==
    LET ps == GroupParams(optim)
        named(i) == mapping.p2f[ps[i]] \cap DOMAIN osd.state
        keyed == {i \in DOMAIN ps : named(i) # {}}
        positions == [i \in DOMAIN ps |-> i]
    IN [state |-> [k \in {Pid(i - 1) : i \in keyed} |->
                      osd.state[CHOOSE f \in named(CHOOSE i \in keyed : Pid(i - 1) = k) : TRUE]],
        param_groups |-> [g \in DOMAIN osd.param_groups |->
                            [lr |-> osd.param_groups[g].lr,
                             params |-> LET inGroup(i) ==
                                               mapping.p2f[ps[i]] \cap
                                                  Range(osd.param_groups[g].params) # {}
                                            kept == SelectSeq(positions, inGroup)
                                        IN [k \in DOMAIN kept |-> Pid(kept[k] - 1)]]]]

(***************************************************************************)
(* _get_optim_state_dict                                                   *)
(***************************************************************************)
EmptyOptimStateDict == [state |-> EmptyDict, param_groups |-> <<>>]

RECURSIVE FqnPidMapping(_, _, _, _, _)
\* the loop that builds fqn_pid_mapping (both directions in one dictionary)
FqnPidMapping(model, np, i, params, d) ==
    IF i > Len(np) THEN Ok(d)
    ELSE LET fqns == _get_fqns(model, np[i].name, TRUE) IN
         IF fqns.err # "" THEN Raise(fqns.err)
         ELSE IF Cardinality(fqns.val) # 1 THEN Raise("AssertionError")
         ELSE LET fqn == CHOOSE f \in fqns.val : TRUE
                  pid == IndexOf(params, np[i].param.id) - 1
              IN IF pid < 0 THEN FqnPidMapping(model, np, i + 1, params, d)
                 ELSE FqnPidMapping(model, np, i + 1, params,
                                    DictPut(DictPut(d, fqn, Pid(pid)), Pid(pid), fqn))

RECURSIVE RekeyState(_, _, _, _)
\* for key in list(osd["state"].keys()): rekey by fqn_pid_mapping
RekeyState(state, keys, i, fqn_pid_mapping) ==
    IF i > Len(keys) THEN Ok(state)
    ELSE IF keys[i] \notin DOMAIN state THEN RekeyState(state, keys, i + 1, fqn_pid_mapping)
    ELSE IF keys[i] \notin DOMAIN fqn_pid_mapping THEN Raise("KeyError")
    ELSE RekeyState(DictPut(DictPop(state, keys[i]), fqn_pid_mapping[keys[i]], state[keys[i]]),
                    keys, i + 1, fqn_pid_mapping)

\* a faulty PidsToFqns: the state is rekeyed and the groups keep their
\* positional ids
PidsToFqnsStateOnly(model, optim, osd) ==
    LET params == GroupParams(optim)
        m == FqnPidMapping(model, named_parameters(model), 1, params, EmptyDict)
    IN IF m.err # "" THEN m
       ELSE LET keys == [i \in DOMAIN params |-> Pid(i - 1)]
                st == RekeyState(osd.state, keys, 1, m.val)
            IN IF st.err # "" THEN st
               ELSE Ok([state |-> st.val, param_groups |-> osd.param_groups])

\* the positional ids of osd rewritten to canonical names (no Shard wrapper)
PidsToFqns(model, optim, osd) ==
    LET params == GroupParams(optim)
        m == FqnPidMapping(model, named_parameters(model), 1, params, EmptyDict)
    IN IF m.err # "" THEN m
       ELSE LET keys == [i \in DOMAIN params |-> Pid(i - 1)]
                st == RekeyState(osd.state, keys, 1, m.val)
            IN IF st.err # "" THEN st
               ELSE IF \E g \in DOMAIN osd.param_groups :
                          \E k \in DOMAIN osd.param_groups[g].params :
                             osd.param_groups[g].params[k] \notin DOMAIN m.val
               THEN Raise("KeyError")
               ELSE Ok([state |-> st.val,
                        param_groups |->
                            [g \in DOMAIN osd.param_groups |->
                                [lr |-> osd.param_groups[g].lr,
                                 params |-> [k \in DOMAIN osd.param_groups[g].params |->
                                               m.val[osd.param_groups[g].params[k]]]]]])

\* the canonical state dict of one initialized optimizer
CanonicalOsd(model, optim, info) ==
    IF info.fsdp_modules # <<>>
    THEN Ok(FsdpOptimStateDict(model, optim, NativeOptimStateDict(optim),
                               info.fqn_param_mapping))
    ELSE PidsToFqns(model, optim, NativeOptimStateDict(optim))

\* optim_state_dict["state"].update(...); optim_state_dict[PG].extend(...)
MergeOsd(optim_state_dict, osd) ==
    [state |-> DictUpdate(optim_state_dict.state, osd.state),
     param_groups |-> optim_state_dict.param_groups \o osd.param_groups]

(***************************************************************************)
(* _split_optim_state_dict and _load_optim_state_dict                      *)
(***************************************************************************)
RECURSIVE SplitState(_, _, _, _, _, _)
\* the loop over the optimizer's parameters, from position i: the state
\* pulled so far and the loaded groups (by position) that mention a pulled name
SplitState(model, params, i, optim_state_dict, info, acc) ==
    IF i > Len(params) THEN Ok(acc)
    ELSE IF ~ParamById(model, params[i]).requires_grad
    THEN SplitState(model, params, i + 1, optim_state_dict, info, acc)
    ELSE IF params[i] \notin DOMAIN info.fqn_param_mapping.p2f THEN Raise("KeyError")
    ELSE LET fqns == info.fqn_param_mapping.p2f[params[i]] IN
         IF \E f \in fqns : f \notin DOMAIN optim_state_dict.state THEN Raise("KeyError")
         ELSE SplitState(model, params, i + 1, optim_state_dict, info,
                  [state |-> DictUpdate(acc.state, [f \in fqns |-> optim_state_dict.state[f]]),
                   ids |-> acc.ids \cup
                           {g \in DOMAIN optim_state_dict.param_groups :
                               \E f \in fqns : f \in Range(optim_state_dict.param_groups[g].params)}])

_split_optim_state_dict(model, optim, optim_state_dict, info) ==
    LET pulled == SplitState(model, GroupParams(optim), 1, optim_state_dict, info,
                             [state |-> EmptyDict, ids |-> {}])
        positions == [g \in DOMAIN optim_state_dict.param_groups |-> g]
    IN IF pulled.err # "" THEN pulled
       ELSE LET picked(g) == g \in pulled.val.ids
                kept == SelectSeq(positions, picked)
            IN Ok([state |-> pulled.val.state,
                   param_groups |-> [k \in DOMAIN kept |->
                                        optim_state_dict.param_groups[kept[k]]]])

\* the state dict handed to optim.load_state_dict
OsdToLoad(model, optim, state_dict, info) ==
    LET split == _split_optim_state_dict(model, optim, state_dict, info) IN
    IF split.err # "" THEN split
    ELSE IF info.fsdp_modules # <<>>
    THEN Ok(FsdpOptimStateDictToLoad(model, optim, split.val, info.fqn_param_mapping))
    ELSE split

(***************************************************************************)
(* The state: the caller's model and optimizers, and the facade call in    *)
(* progress.                                                               *)
(***************************************************************************)
VARIABLES
    module,        \* the module tree (its place in Trees)
    opts,          \* the caller's DistributedStateDictOptions
    optimizers,    \* the caller's optimizers: [param_groups, state] each
    tensors,       \* storage slot -> tensor value
    grad,          \* parameter -> "none" | "real" | "zero"
    trained,       \* training steps taken so far
    saved,         \* what the last successful distributed_state_dict returned
    synced,        \* saved was loaded back and nothing was trained since
    pc,            \* "idle", or the step of the call in progress
    call,          \* the arguments of the call in progress
    call_info,     \* its _StateDictInfo
    model_sd,      \* the model state dict being built or loaded
    optim_sd,      \* the optimizer state dict being built or loaded
    optim_idx,     \* the optimizer the loop over optims is at
    events,        \* the collaborators' primitives invoked by this call
    handed,        \* what the call gave to model.load_state_dict
    pre,           \* model and optimizers as they were when the call began
    err,           \* the error the call raised, "" when none
    patched        \* model.state_dict and model.load_state_dict are the hooks

vars == <<module, opts, optimizers, tensors, grad, trained, saved, synced, pc, call,
          call_info, model_sd, optim_sd, optim_idx, events, handed, pre, err, patched>>

caller == <<module, opts, patched>>

NoInfo ==
    [save_frozen_params |-> TRUE, fqn_param_mapping |-> EmptyMapping,
     fsdp_modules |-> <<>>, handle_model |-> FALSE, handle_optim |-> FALSE]

NoCall ==
    [op |-> "none", model_only |-> FALSE, optim_only |-> FALSE, with_optims |-> FALSE,
     model_state_dict |-> EmptyDict, optim_state_dict |-> EmptyDict, hook |-> FALSE]

NothingSaved ==
    [valid |-> FALSE, model_only |-> FALSE, optim_only |-> FALSE, with_optims |-> FALSE,
     model_state_dict |-> EmptyDict, optim_state_dict |-> EmptyDict]

Snapshot == [values |-> tensors, grads |-> grad, optimizers |-> optimizers]

Tree == Trees[module]

\* the optims argument of the call in progress
optims == IF call.with_optims THEN optimizers ELSE <<>>

(***************************************************************************)
(* The configurations the caller starts from.                              *)
(***************************************************************************)
HasFrozen(m) ==
    LET np == named_parameters(Trees[m])
    IN \E k \in DOMAIN np : ~np[k].param.requires_grad

\* the default options; save_frozen_params off where there is a frozen
\* parameter; use_dtensor off and the other state-dict types where they count
OptionChoices(m) ==
    {DefaultOptions}
    \cup (IF HasFrozen(m)
          THEN {[DefaultOptions EXCEPT !.save_frozen_params = FALSE]} ELSE {})
    \cup (IF Trees[m] = ShardTPModel
          THEN {[DefaultOptions EXCEPT !.use_dtensor = FALSE]} ELSE {})
    \cup (IF Trees[m] = ShardModel
          THEN {[DefaultOptions EXCEPT !.fsdp_state_dict_type = "FULL_STATE_DICT"],
                [DefaultOptions EXCEPT !.fsdp_state_dict_type = "LOCAL_STATE_DICT"]}
          ELSE {})

NewOptimizer(groups) == [param_groups |-> groups, state |-> EmptyDict]

ParamSeq(m) ==
    LET np == named_parameters(Trees[m]) IN [k \in DOMAIN np |-> np[k].param.id]

\* one optimizer over all parameters; for some trees also one optimizer with
\* two groups (not in the order of named_parameters) and two optimizers.
\* Every group holds a trainable parameter and no two optimizers share one.
Layouts(m) ==
    LET ps == ParamSeq(m) IN
    {<<NewOptimizer(<<[lr |-> 1, params |-> ps]>>)>>}
    \cup (IF Trees[m] = PlainModel
          THEN {<<NewOptimizer(<<[lr |-> 1, params |-> Tail(ps)],
                                 [lr |-> 2, params |-> <<Head(ps)>>]>>)>>}
          ELSE {})
    \cup (IF Trees[m] \in {PlainModel, InnerReplicaModel}
          THEN {<<NewOptimizer(<<[lr |-> 1, params |-> <<Head(ps)>>]>>),
                  NewOptimizer(<<[lr |-> 2, params |-> Tail(ps)]>>)>>}
          ELSE {})

Init ==
    /\ module \in DOMAIN Trees
    /\ opts \in OptionChoices(module)
    /\ optimizers \in Layouts(module)
    /\ tensors = [sl \in Slots(Tree) |-> sl]
    /\ grad = [q \in ParamIds(Tree) |-> "none"]
    /\ trained = 0
    /\ saved = NothingSaved
    /\ synced = FALSE
    /\ pc = "idle"
    /\ call = NoCall
    /\ call_info = NoInfo
    /\ model_sd = EmptyDict
    /\ optim_sd = EmptyDict
    /\ optim_idx = 1
    /\ events = <<>>
    /\ handed = EmptyDict
    /\ pre = Snapshot
    /\ err = ""
    /\ patched = FALSE

(***************************************************************************)
(* The caller between facade calls.                                        *)
(***************************************************************************)
\* the storage slots parameter q holds
SlotsOf(m, q) ==
    LET rec == ParamById(m, q)
    IN {q} \cup {rec.fqns[k].slot : k \in DOMAIN rec.fqns}

\* per tree, the trainable parameters
Trainable ==
    [m \in DOMAIN Trees |-> {q \in ParamIds(Trees[m]) : ParamById(Trees[m], q).requires_grad}]

\* the sets of parameters a backward pass may reach: all the trainable
\* ones, and for one tree also its last parameter alone (a loss that depends
\* on a part of the model)
BackwardChoices(m) ==
    {Trainable[m]}
    \cup (IF Trees[m] = InnerFlatShardModel
          THEN {{ParamSeq(m)[Len(ParamSeq(m))]}} ELSE {})

\* loss.backward(): the trainable parameters the loss depends on get a
\* gradient
Backward ==
    /\ pc = "idle"
    /\ trained < MaxTrain
    /\ \A q \in DOMAIN grad : grad[q] = "none"
    /\ \E reached \in BackwardChoices(module) :
          grad' = [q \in DOMAIN grad |-> IF q \in reached THEN "real" ELSE "none"]
    /\ synced' = FALSE
    /\ UNCHANGED <<caller, optimizers, tensors, trained, saved, pc, call, call_info,
                   model_sd, optim_sd, optim_idx, events, handed, pre, err>>

\* optimizer.step() and zero_grad() on every optimizer, after a backward pass
Train ==
    /\ pc = "idle"
    /\ \E q \in DOMAIN grad : grad[q] = "real"
    /\ optimizers' = [o \in DOMAIN optimizers |-> OptimStep(optimizers[o], grad)]
    /\ tensors' = [sl \in DOMAIN tensors |->
                     IF \E o \in DOMAIN optimizers :
                           \E q \in Range(GroupParams(optimizers[o])) :
                               sl \in SlotsOf(Tree, q) /\ grad[q] # "none"
                     THEN tensors[sl] + 100 ELSE tensors[sl]]
    /\ grad' = [q \in DOMAIN grad |-> "none"]
    /\ trained' = trained + 1
    /\ synced' = FALSE
    /\ UNCHANGED <<caller, saved, pc, call, call_info, model_sd, optim_sd,
                   optim_idx, events, handed, pre, err>>

\* a call begins, or fails to bind its arguments with error e
Begin(c, e) ==
    /\ pc = "idle"
    /\ pc' = IF e = "" THEN "options" ELSE "error"
    /\ call' = c
    /\ call_info' = NoInfo
    /\ model_sd' = c.model_state_dict
    /\ optim_sd' = c.optim_state_dict
    /\ optim_idx' = 1
    /\ events' = <<>>
    /\ handed' = EmptyDict
    /\ pre' = Snapshot
    /\ err' = e
    /\ UNCHANGED <<caller, optimizers, tensors, grad, trained, saved>>

\* distributed_state_dict(model, optims, model_only=..., optim_only=..., options=...)
CallStateDict ==
    /\ pc = "idle"
    /\ \E mo, oo, wo \in BOOLEAN :
          /\ Begin([NoCall EXCEPT !.op = "state_dict", !.model_only = mo,
                                  !.optim_only = oo, !.with_optims = wo], "")
          /\ UNCHANGED synced

\* a model state dict with a key that holds the flattening marker
Leaked(d) == DictPut(d, <<"sub", "my_flat_param_0">>, 0)

\* distributed_load_state_dict(model, optims, model_state_dict=...,
\* optim_state_dict=..., ...): the state dicts are the saved ones, the
\* defaults ({}), or a model state dict with a leaked key
CallLoad ==
    /\ pc = "idle"
    /\ \E mo, oo, wo \in BOOLEAN :
       \E sd \in {<<saved.model_state_dict, saved.optim_state_dict>>,
                  <<EmptyDict, saved.optim_state_dict>>,
                  <<saved.model_state_dict, EmptyDict>>,
                  <<Leaked(saved.model_state_dict), saved.optim_state_dict>>} :
           /\ Begin([op |-> "load", model_only |-> mo, optim_only |-> oo, with_optims |-> wo,
                     model_state_dict |-> sd[1], optim_state_dict |-> sd[2],
                     hook |-> FALSE], "")
           /\ synced' = FALSE

\* the trees whose caller installs the hooks: one under a Replica wrapper,
\* one under a Shard wrapper
Patchable == {ReplicaModel, FlatShardModel}

\* patch_model_state_dict(model, options=options)
PatchModelStateDict ==
    /\ pc = "idle"
    /\ Tree \in Patchable
    /\ ~patched
    /\ patched' = TRUE
    /\ UNCHANGED <<module, opts, optimizers, tensors, grad, trained, saved, synced, pc,
                   call, call_info, model_sd, optim_sd, optim_idx, events, handed, pre,
                   err>>

\* model.state_dict() on a patched model: state_dict_call
StateDictCall ==
    /\ patched
    /\ Begin([NoCall EXCEPT !.op = "state_dict", !.model_only = TRUE, !.hook = TRUE],
             BindError(StateDictCallKeywords, StateDictParameters))
    /\ UNCHANGED synced

\* model.load_state_dict(state_dict) on a patched model: load_state_dict_call,
\* given the model state dict last saved
LoadStateDictCall ==
    /\ patched
    /\ Begin([NoCall EXCEPT !.op = "load", !.model_only = TRUE, !.hook = TRUE,
                            !.model_state_dict = saved.model_state_dict],
             BindError(LoadStateDictCallKeywords, LoadStateDictParameters))
    /\ synced' = FALSE

(***************************************************************************)
(* distributed_state_dict and distributed_load_state_dict, step by step.   *)
(***************************************************************************)
Fail(e) == pc' = "error" /\ err' = e

\* a faulty order: distributed_load_state_dict loads before it verifies
AfterOptionsLoadFirst(op) == IF op = "state_dict" THEN "get_model" ELSE "load_model"

\* the step that follows _verify_options: _get_model_state_dict in
\* distributed_state_dict, _verify_state_dict in distributed_load_state_dict
AfterOptions(op) == IF op = "state_dict" THEN "get_model" ELSE "verify"

\* _verify_options, the first step of both operations
VerifyOptions ==
    /\ pc = "options"
    /\ LET r == _verify_options(Tree, optims, call.model_only, call.optim_only, opts)
       IN IF r.err # "" THEN Fail(r.err) /\ call_info' = call_info
          ELSE /\ call_info' = r.val
               /\ pc' = AfterOptions(call.op)
               /\ err' = err
    /\ UNCHANGED <<caller, optimizers, tensors, grad, trained, saved, synced, call,
                   model_sd, optim_sd, optim_idx, events, handed, pre>>

\* _get_model_state_dict, then the start of _get_optim_state_dict
GetModelStateDict ==
    /\ pc = "get_model"
    /\ events' = Append(events, "model.state_dict")
    /\ LET r == _get_model_state_dict(Tree, tensors, call_info)
           e == IF _state_dict_fn(patched, 0) # "" THEN _state_dict_fn(patched, 0)
                ELSE r.err
       IN IF e # ""
          THEN Fail(e) /\ UNCHANGED <<model_sd, optim_sd>>
          ELSE /\ model_sd' = r.val
               /\ optim_sd' = EmptyOptimStateDict
               /\ pc' = IF optims = <<>> THEN "verify" ELSE "get_optim"
               /\ err' = err
    /\ UNCHANGED <<caller, optimizers, tensors, grad, trained, saved, synced, call, call_info,
                   optim_idx, handed, pre>>

\* one turn of the loop of _get_optim_state_dict
GetOptimStateDict ==
    /\ pc = "get_optim"
    /\ LET init == _init_optim_state(Tree, optims[optim_idx], grad)
           osd == CanonicalOsd(Tree, init.optim, call_info)
       IN /\ grad' = init.grads
          /\ optimizers' = [optimizers EXCEPT ![optim_idx] = init.optim]
          /\ IF init.err # ""
             THEN Fail(init.err) /\ UNCHANGED <<optim_sd, optim_idx, events>>
             ELSE /\ events' = events \o (IF init.stepped THEN <<"optim.step">> ELSE <<>>)
                                      \o <<"optim.state_dict">>
                  /\ IF osd.err # ""
                     THEN Fail(osd.err) /\ UNCHANGED <<optim_sd, optim_idx>>
                     ELSE /\ optim_sd' = MergeOsd(optim_sd, osd.val)
                          /\ optim_idx' = optim_idx + 1
                          /\ pc' = IF optim_idx = Len(optims) THEN "verify" ELSE "get_optim"
                          /\ err' = err
    /\ UNCHANGED <<caller, tensors, trained, saved, synced, call, call_info, model_sd,
                   handed, pre>>

\* _verify_state_dict: the last step of distributed_state_dict, the second
\* of distributed_load_state_dict
VerifyStateDict ==
    /\ pc = "verify"
    /\ LET e == _verify_state_dict(model_sd, optim_sd, call_info)
       IN IF e # "" THEN Fail(e)
          ELSE /\ pc' = IF call.op = "state_dict" THEN "done" ELSE "load_model"
               /\ err' = err
    /\ UNCHANGED <<caller, optimizers, tensors, grad, trained, saved, synced, call, call_info,
                   model_sd, optim_sd, optim_idx, events, handed, pre>>

\* _load_model_state_dict
LoadModelStateDict ==
    /\ pc = "load_model"
    /\ \E z \in ZipChoices(Tree) :
         LET r == RekeyToNative(Tree, named_parameters(Tree), 1, model_sd, z)
         IN IF r.err # ""
            THEN Fail(r.err) /\ UNCHANGED <<model_sd, handed, events, tensors>>
            ELSE IF _state_dict_fn(patched, 1) # ""
            THEN /\ Fail(_state_dict_fn(patched, 1))
                 /\ model_sd' = r.val
                 /\ UNCHANGED <<handed, events, tensors>>
            ELSE /\ model_sd' = r.val
                 /\ handed' = r.val
                 /\ events' = Append(events, "model.load_state_dict")
                 /\ tensors' = NativeLoadValues(Tree, r.val, tensors)
                 /\ IF NativeLoadError(Tree, r.val) # ""
                    THEN Fail(NativeLoadError(Tree, r.val))
                    ELSE /\ pc' = IF optims = <<>> THEN "done" ELSE "load_optim"
                         /\ err' = err
    /\ UNCHANGED <<caller, optimizers, grad, trained, saved, synced, call, call_info,
                   optim_sd, optim_idx, pre>>

\* one turn of the loop of _load_optim_state_dict
LoadOptimStateDict ==
    /\ pc = "load_optim"
    /\ LET todo == OsdToLoad(Tree, optims[optim_idx], optim_sd, call_info)
           init == _init_optim_state(Tree, optims[optim_idx], grad)
       IN IF todo.err # ""
          THEN Fail(todo.err) /\ UNCHANGED <<optimizers, grad, optim_idx, events>>
          ELSE /\ grad' = init.grads
               /\ IF init.err # ""
                  THEN Fail(init.err) /\ UNCHANGED <<optimizers, optim_idx, events>>
                  ELSE /\ events' = events \o (IF init.stepped THEN <<"optim.step">> ELSE <<>>)
                                           \o <<"optim.load_state_dict">>
                       /\ IF NativeOptimLoadError(init.optim, todo.val) # ""
                          THEN /\ Fail(NativeOptimLoadError(init.optim, todo.val))
                               /\ optimizers' = [optimizers EXCEPT ![optim_idx] = init.optim]
                               /\ optim_idx' = optim_idx
                          ELSE /\ optimizers' = [optimizers EXCEPT
                                                    ![optim_idx] = NativeOptimLoad(init.optim, todo.val)]
                               /\ optim_idx' = optim_idx + 1
                               /\ pc' = IF optim_idx = Len(optims) THEN "done" ELSE "load_optim"
                               /\ err' = err
    /\ UNCHANGED <<caller, tensors, trained, saved, synced, call, call_info, model_sd,
                   optim_sd, handed, pre>>

\* the call in progress is a plain call (no model_only, no optim_only) with
\* all the caller's optimizers
PlainCall == ~call.model_only /\ ~call.optim_only /\ call.with_optims

\* the call in progress loads exactly what the last plain
\* distributed_state_dict returned
LoadsSaved ==
    /\ call.op = "load" /\ PlainCall
    /\ saved.valid /\ ~saved.model_only /\ ~saved.optim_only /\ saved.with_optims
    /\ call.model_state_dict = saved.model_state_dict
    /\ call.optim_state_dict = saved.optim_state_dict

\* the call returns or raises; the caller keeps what distributed_state_dict returned
Return ==
    /\ pc \in {"done", "error"}
    /\ pc' = "idle"
    /\ saved' = IF pc = "done" /\ call.op = "state_dict"
                THEN [valid |-> TRUE, model_only |-> call.model_only,
                      optim_only |-> call.optim_only, with_optims |-> call.with_optims,
                      model_state_dict |-> model_sd,
                      optim_state_dict |-> optim_sd]
                ELSE saved
    /\ synced' = IF call.op = "load" THEN pc = "done" /\ LoadsSaved
                 ELSE synced /\ saved' = saved
    /\ call' = NoCall
    /\ call_info' = NoInfo
    /\ model_sd' = EmptyDict
    /\ optim_sd' = EmptyDict
    /\ optim_idx' = 1
    /\ events' = <<>>
    /\ handed' = EmptyDict
    /\ pre' = Snapshot
    /\ err' = ""
    /\ UNCHANGED <<caller, optimizers, tensors, grad, trained>>

Next ==
    \/ Backward
    \/ Train
    \/ CallStateDict
    \/ CallLoad
    \/ PatchModelStateDict
    \/ StateDictCall
    \/ LoadStateDictCall
    \/ VerifyOptions
    \/ GetModelStateDict
    \/ GetOptimStateDict
    \/ VerifyStateDict
    \/ LoadModelStateDict
    \/ LoadOptimStateDict
    \/ Return

Spec == Init /\ [][Next]_vars

TypeOK == pc \in {"idle", "options", "get_model", "get_optim", "verify", "load_model",
                  "load_optim", "done", "error"}

(***************************************************************************)
(* What the claims speak of.                                               *)
(***************************************************************************)
RECURSIVE Unwrapped(_, _)
\* the tree with every wrapper node of the given kinds replaced by its child
Unwrapped(node, kinds) ==
    IF node.kind \in kinds THEN Unwrapped(Wrapped(node), kinds)
    ELSE [node EXCEPT !.children =
             [c \in DOMAIN node.children |->
                 Child(node.children[c].name, Unwrapped(node.children[c].node, kinds))]]

\* the name parameter q has in tree
NameIn(tree, q) ==
    LET np == named_parameters(tree)
    IN np[CHOOSE k \in DOMAIN np : np[k].param.id = q].name

\* per tree, the name each parameter has in the unwrapped tree
UnwrappedNames ==
    [m \in DOMAIN Trees |->
        [q \in ParamIds(Trees[m]) |->
            NameIn(Unwrapped(Trees[m], {"Replica", "Shard"}), q)]]

\* per tree, the name each parameter has with only the Shard wrappers removed
UnshardedNames ==
    [m \in DOMAIN Trees |->
        [q \in ParamIds(Trees[m]) |-> NameIn(Unwrapped(Trees[m], {"Shard"}), q)]]

\* the name parameter q has in the unwrapped tree
CanonicalName(q) == UnwrappedNames[module][q]

\* the name parameter q has with only the Shard wrappers removed
ReplicaName(q) == UnshardedNames[module][q]

\* per tree, what named_parameters() yields
NamedParams == [m \in DOMAIN Trees |-> named_parameters(Trees[m])]

\* per tree, what _get_fqns returns for each native parameter path
ResolvedSkipping ==
    [m \in DOMAIN Trees |->
        [k \in DOMAIN NamedParams[m] |->
            _get_fqns(Trees[m], NamedParams[m][k].name, TRUE)]]

\* the same with skip_ddp_prefix=False
ResolvedKeeping ==
    [m \in DOMAIN Trees |->
        [k \in DOMAIN NamedParams[m] |->
            _get_fqns(Trees[m], NamedParams[m][k].name, FALSE)]]

\* the positions in named_parameters() of the flat parameters that a Shard
\* wrapper of the tree holds
ShardFlatParams ==
    LET np == NamedParams[module]
    IN {j \in DOMAIN np :
           /\ np[j].param.fqns # <<>>
           /\ Len(np[j].name) >= 2
           /\ np[j].name[Len(np[j].name) - 1] = FSDP_WRAPPED_MODULE}

\* the names a flat parameter recorded
RecordedNames(q) ==
    LET rec == ParamById(Tree, q) IN {rec.fqns[k].fqn : k \in DOMAIN rec.fqns}

\* the Shard wrappers of the tree
ShardWrappers == [m \in DOMAIN Trees |-> fsdp_modules(Trees[m])]

\* the canonical path of the module that holds parameter q
CanonicalPrefix(q) == SubSeq(CanonicalName(q), 1, Len(CanonicalName(q)) - 1)

NoGradsBefore == \A q \in DOMAIN pre.grads : pre.grads[q] = "none"

InCall == pc # "idle"

\* _verify_options has returned the info of the call in progress
IndexBuilt == call_info # NoInfo

BadPolicy ==
    \/ call.model_only /\ call.optim_only
    \/ call.model_only /\ optims # <<>>
    \/ call.optim_only /\ optims = <<>>

(***************************************************************************)
(* C1. Round trip: loading what a plain distributed_state_dict returned    *)
(* into a structurally identical model and optimizers succeeds, hands the  *)
(* native load primitive only keys the native save primitive produces,     *)
(* and a following distributed_state_dict returns the same state dicts.    *)
(***************************************************************************)
C1_RoundTrip ==
    /\ (LoadsSaved /\ opts = DefaultOptions /\ NoGradsBefore) =>
          /\ pc # "error"
          /\ DOMAIN handed \subseteq Range(NativeKeys(Tree))
    /\ (synced /\ opts = DefaultOptions /\ call.op = "state_dict" /\ PlainCall
           /\ pc = "done") =>
          /\ model_sd = saved.model_state_dict
          /\ optim_sd = saved.optim_state_dict

(***************************************************************************)
(* C2. Wrapper transparency: on a tree without flat parameters, every      *)
(* native parameter path resolves, with skip_ddp_prefix, to the one name   *)
(* the parameter has in the unwrapped tree, and without it to the name it  *)
(* has with only the Shard markers removed; a path of one segment          *)
(* resolves to itself.                                                     *)
(***************************************************************************)
C2_WrapperTransparency ==
    LET np == NamedParams[module] IN
    (\A k \in DOMAIN np : np[k].param.fqns = <<>>) =>
        \A k \in DOMAIN np :
            /\ ResolvedSkipping[module][k] = Ok({CanonicalName(np[k].param.id)})
            /\ ResolvedKeeping[module][k] = Ok({ReplicaName(np[k].param.id)})
            /\ Len(np[k].name) = 1 =>
                  /\ ResolvedSkipping[module][k] = Ok({np[k].name})
                  /\ ResolvedKeeping[module][k] = Ok({np[k].name})
            /\ IndexBuilt => call_info.fqn_param_mapping.p2f[np[k].param.id]
                                = {CanonicalName(np[k].param.id)}

\* the index of a call holds a name that lost a Replica and a Shard segment
C2_Witness ==
    /\ IndexBuilt
    /\ Tree = NestedShardModel
    /\ call_info.fqn_param_mapping.p2f[2] = {<<"u", "w">>}
    /\ NamedParams[module][2].name = <<FSDP_WRAPPED_MODULE, "u", FSDP_WRAPPED_MODULE, "w">>

(***************************************************************************)
(* C3. Flat-parameter fan-out: the path of a Shard wrapper's flat          *)
(* parameter resolves to exactly the recorded names under the wrapper's    *)
(* canonical prefix, and in the index each of these names maps to the      *)
(* flat parameter and the flat parameter to the whole set.                 *)
(***************************************************************************)
C3_FlatFanOut ==
    \A k \in ShardFlatParams :
        LET q == NamedParams[module][k].param.id
            names == {CanonicalPrefix(q) \o a : a \in RecordedNames(q)}
        IN
        /\ ResolvedSkipping[module][k] = Ok(names)
        /\ IndexBuilt =>
              /\ call_info.fqn_param_mapping.p2f[q] = names
              /\ \A f \in names : /\ f \in DOMAIN call_info.fqn_param_mapping.f2p
                                  /\ call_info.fqn_param_mapping.f2p[f] = q

\* the index of a call on a tree whose flat parameter, of two names, is held
\* by a Shard wrapper below the child "enc"
C3_Witness ==
    /\ IndexBuilt
    /\ Tree = InnerFlatShardModel
    /\ ShardFlatParams # {}
    /\ \A k \in ShardFlatParams :
          call_info.fqn_param_mapping.p2f[NamedParams[module][k].param.id]
             = {<<"enc", "l", "weight">>, <<"enc", "l", "bias">>}

(***************************************************************************)
(* C4. Canonical injectivity: the canonical name sets of two distinct      *)
(* named parameters are disjoint; the index holds every named parameter    *)
(* once, every canonical name once, and mapping[fqn] = p for every fqn in  *)
(* mapping[p].                                                             *)
(***************************************************************************)
C4_CanonicalInjectivity ==
    /\ \A j, k \in DOMAIN NamedParams[module] :
          j # k => ResolvedSkipping[module][j].val \cap ResolvedSkipping[module][k].val = {}
    /\ IndexBuilt =>
          LET p2f == call_info.fqn_param_mapping.p2f
              f2p == call_info.fqn_param_mapping.f2p
          IN /\ DOMAIN p2f = ParamIds(Tree)
             /\ DOMAIN f2p = UNION {p2f[q] : q \in DOMAIN p2f}
             /\ \A q \in DOMAIN p2f : p2f[q] # {} /\ \A f \in p2f[q] : f2p[f] = q

\* the index of a call on a tree where two parameters share their last segment
C4_Witness ==
    /\ IndexBuilt
    /\ Tree = InnerReplicaModel
    /\ Cardinality(DOMAIN call_info.fqn_param_mapping.f2p) = 2

(***************************************************************************)
(* C5. Policy rejection: a call with model_only and optim_only, with       *)
(* model_only and optimizers, or with optim_only and no optimizers, ends   *)
(* in an error with no primitive of the model or of an optimizer invoked   *)
(* and the model, the gradients and the optimizers as they were.           *)
(***************************************************************************)
C5_PolicyRejection ==
    (InCall /\ BadPolicy) =>
        /\ pc \in {"options", "error"}
        /\ events = <<>>
        /\ Snapshot = pre

\* distributed_state_dict was rejected for optim_only without optimizers
C5_Witness ==
    /\ pc = "error"
    /\ call.op = "state_dict"
    /\ call.optim_only /\ ~call.model_only /\ optims = <<>>
    /\ err = "Optimizers are not passed in but optim_only is set to True."

Pids == {Pid(n) : n \in 0..Len(NamedParams[module])}

ExpectedGroups ==
    Flatten([o \in DOMAIN optims |->
                [g \in DOMAIN optims[o].param_groups |->
                    [lr |-> optims[o].param_groups[g].lr,
                     params |-> [k \in DOMAIN optims[o].param_groups[g].params |->
                                    CanonicalName(optims[o].param_groups[g].params[k])]]]])

ExpectedState ==
    LET held == UNION {{<<o, q>> : q \in DOMAIN optims[o].state} : o \in DOMAIN optims}
    IN [f \in {CanonicalName(h[2]) : h \in held} |->
           LET h == CHOOSE x \in held : CanonicalName(x[2]) = f
           IN optims[h[1]].state[h[2]]]

(***************************************************************************)
(* C6. Canonical optimizer state: for a model without Shard wrappers, the  *)
(* optimizer state dict distributed_state_dict built holds no positional   *)
(* id: its state is the union of the optimizers' states keyed by the       *)
(* canonical name of each parameter, and its param_groups are the          *)
(* optimizers' groups, in optimizer order, listing canonical names.        *)
(***************************************************************************)
C6_CanonicalOptimState ==
    (call.op = "state_dict" /\ pc \in {"verify", "done"} /\ ShardWrappers[module] = <<>>) =>
        /\ optim_sd.state = ExpectedState
        /\ optim_sd.param_groups = ExpectedGroups
        /\ DOMAIN optim_sd.state \cap Pids = {}
        /\ \A g \in DOMAIN optim_sd.param_groups :
              Range(optim_sd.param_groups[g].params) \cap Pids = {}

\* two optimizers' states were merged under names that lost a Replica segment
C6_Witness ==
    /\ call.op = "state_dict" /\ pc = "done"
    /\ Tree = InnerReplicaModel
    /\ Len(optims) = 2
    /\ DOMAIN optim_sd.state = {<<"enc", "w">>, <<DDP_MODULE, "w">>}
    /\ Len(optim_sd.param_groups) = 2

\* the storage slot the canonical key of a model state dict saves
SlotOfKey(key) ==
    LET es == NativeEntries(Tree, <<>>, FALSE)
    IN es[CHOOSE e \in DOMAIN es : _get_fqns(Tree, es[e].key, TRUE).val = {key}].slot

FrozenSlots ==
    UNION {SlotsOf(Tree, q) : q \in {x \in ParamIds(Tree) : ~ParamById(Tree, x).requires_grad}}

(***************************************************************************)
(* C7. Frozen-parameter filter: the model state dict extracted with        *)
(* save_frozen_params off is the one extracted with it on, less every      *)
(* entry whose parameter has requires_grad false.                          *)
(***************************************************************************)
C7_FrozenFilter ==
    (call.op = "state_dict" /\ ~opts.save_frozen_params
        /\ pc \in {"get_optim", "verify", "done"}) =>
        LET full == _get_model_state_dict(Tree, tensors,
                                          [call_info EXCEPT !.save_frozen_params = TRUE]).val
            kept == {k \in DOMAIN full : SlotOfKey(k) \notin FrozenSlots}
        IN model_sd = [k \in kept |-> full[k]]

NoRootError == "The model has FSDP modules but no FSDP root module exists."

HasShard == ShardWrappers[module] # <<>>

NoRoot == HasShard /\ \A k \in DOMAIN ShardWrappers[module] : ~ShardWrappers[module][k].is_root

\* the call in progress got as far as _verify_state_dict
ReachedVerify ==
    /\ IndexBuilt
    /\ call.op = "state_dict" =>
          model_sd # EmptyDict /\ (optims = <<>> \/ optim_idx > Len(optims))

HasMarker(key) == \E k \in DOMAIN key : key[k] \in MarkerSegments

(***************************************************************************)
(* C9. Leaked-marker safety: a model state dict that passed                *)
(* _verify_state_dict, so one distributed_state_dict returns or            *)
(* distributed_load_state_dict hands to the native load primitive, has no  *)
(* key with "_flat_param" in it; a call given such a key never succeeds.   *)
(***************************************************************************)
C9_LeakedMarker ==
    /\ pc \in {"done", "load_model", "load_optim"} =>
          \A key \in DOMAIN model_sd : ~HasMarker(key)
    /\ \A key \in DOMAIN handed : ~HasMarker(key)
    /\ (\E key \in DOMAIN call.model_state_dict : HasMarker(key)) => pc # "done"

\* a load was given a key that holds the marker inside a segment and failed
\* in the verification, with nothing handed to the model
C9_Witness ==
    /\ call.op = "load" /\ PlainCall
    /\ <<"sub", "my_flat_param_0">> \in DOMAIN call.model_state_dict
    /\ pc = "error" /\ err = "contains _flat_param"
    /\ events = <<>>

(***************************************************************************)
(* C10. optim_only leaves the model alone: with optim_only and             *)
(* optimizers, distributed_state_dict returns an empty model state dict    *)
(* and distributed_load_state_dict neither invokes the model's native      *)
(* load primitive nor rewrites model_state_dict.                           *)
(***************************************************************************)
C10_OptimOnly ==
    (InCall /\ call.optim_only /\ ~call.model_only /\ optims # <<>>) =>
        /\ (call.op = "state_dict" /\ pc = "done") => model_sd = EmptyDict
        /\ call.op = "load" =>
              /\ "model.load_state_dict" \notin Range(events)
              /\ model_sd = call.model_state_dict
              /\ handed = EmptyDict

\* what distributed_state_dict(model, (), model_only=True, options) returns
\* as its model state dict
ModelOnlyStateDict ==
    LET info == _verify_options(Tree, <<>>, TRUE, FALSE, opts)
    IN _get_model_state_dict(Tree, tensors, info.val)

\* the call in progress came through an installed hook
HookCall(op) == InCall /\ call.hook /\ call.op = op

(***************************************************************************)
(* C11. Installed model hooks delegate to the facade: on a patched model,  *)
(* model.state_dict() returns the model state dict of                      *)
(* distributed_state_dict(model, (), model_only=True, options), invoking   *)
(* the native save primitive once; model.load_state_dict(sd) with the      *)
(* canonical model state dict sd that was saved runs                       *)
(* distributed_load_state_dict with model_only and never ends in an error. *)
(***************************************************************************)
C11_ModelHooks ==
    /\ (HookCall("state_dict") /\ pc = "done") =>
          /\ model_sd = ModelOnlyStateDict.val
          /\ events = <<"model.state_dict">>
    /\ (HookCall("load") /\ saved.valid /\ saved.model_only
           /\ call.model_state_dict = saved.model_state_dict) =>
          /\ call.model_only /\ optims = <<>>
          /\ pc # "error"

\* how many times primitive e was invoked
Count(evs, e) == Cardinality({k \in DOMAIN evs : evs[k] = e})

\* a step of distributed_state_dict or distributed_load_state_dict is due
Running(op) == pc \notin {"idle", "done", "error"} /\ call.op = op

\* the step changes the model, the gradients, an optimizer or the state dict
\* given, or invokes a primitive of the model or of an optimizer
Mutates ==
    \/ Snapshot' # Snapshot
    \/ events' # events
    \/ model_sd' # model_sd
    \/ optim_sd' # optim_sd

(***************************************************************************)
(* C12. Verify-before-mutate ordering: in distributed_load_state_dict,     *)
(* _verify_state_dict runs right after _verify_options; only the steps     *)
(* after it (_load_model_state_dict and _load_optim_state_dict) change     *)
(* anything or invoke a primitive, and when _verify_options or             *)
(* _verify_state_dict fails, the values, the gradients and the optimizers  *)
(* are as they were when the call began.  In distributed_state_dict,       *)
(* _verify_state_dict runs only once the model state dict was extracted,   *)
(* rekeyed and filtered and every optimizer's state dict was extracted.    *)
(***************************************************************************)
C12_VerifyBeforeMutate ==
    [][/\ Running("load") =>
            /\ pc' = "verify" => pc = "options"
            /\ pc' \in {"load_model", "load_optim"} => pc \in {"verify", "load_model", "load_optim"}
            /\ Mutates => pc \in {"load_model", "load_optim"}
            /\ pc \in {"options", "verify"} =>
                  /\ Snapshot = pre /\ events = <<>>
                  /\ pc' = "error" => Snapshot' = pre' /\ events' = <<>>
       /\ (Running("state_dict") /\ pc' = "verify") =>
            /\ pc \in {"get_model", "get_optim"}
            /\ Count(events', "model.state_dict") = 1
            /\ model_sd' = _get_model_state_dict(Tree, tensors, call_info).val
            /\ Count(events', "optim.state_dict") = Len(optims)
            /\ optims # <<>> => optim_idx' = Len(optims) + 1
      ]_vars

\* a load on a trained model failed in the verification, for its optimizer
\* state dict was empty, and nothing was touched
C12_Witness ==
    /\ call.op = "load" /\ PlainCall
    /\ pc = "error" /\ err = "optim state_dict is empty"
    /\ trained > 0
    /\ \E o \in DOMAIN optimizers : optimizers[o].state # EmptyDict
    /\ call.model_state_dict # EmptyDict
    /\ events = <<>>
    /\ Snapshot = pre

GradsNotNone == "the gradients are not None"

(***************************************************************************)
(* C13. Failed lazy initialization changes nothing: a turn that calls      *)
(* _init_optim_state on an optimizer whose state is empty while one of its *)
(* parameters has a gradient ends in the error and leaves every gradient   *)
(* and the optimizers as they were, with no optimizer step; a turn on an   *)
(* optimizer whose state is not empty changes no gradient and takes no     *)
(* step.                                                                   *)
(***************************************************************************)
C13_FailedInit ==
    [][(pc \in {"get_optim", "load_optim"}) =>
          LET optim == optims[optim_idx] IN
          /\ (optim.state = EmptyDict
                /\ \E q \in Range(GroupParams(optim)) : grad[q] # "none") =>
                /\ pc' = "error"
                /\ grad' = grad
                /\ optimizers' = optimizers
                /\ Count(events', "optim.step") = Count(events, "optim.step")
          /\ optim.state # EmptyDict =>
                /\ grad' = grad
                /\ Count(events', "optim.step") = Count(events, "optim.step")
      ]_vars
====
